---- MODULE Spec2Model ----
(***************************************************************************)
(* Model of src/csv-to-gpx-converter.jsx: the CSV parser (parseCSV), the   *)
(* GPX serializer (createGPXXML), the filename derivation and the React    *)
(* component state driven by handleFileUpload and convertToGPX.            *)
(*                                                                         *)
(* A JavaScript string is a sequence of symbols.  A symbol is either one   *)
(* of the characters the code treats specially (comma, newline, carriage   *)
(* return, space, double quote, for filenames also single letters) or a    *)
(* word: a run of characters holding none of them.  The texts the          *)
(* specifications draw never put two words next to each other, so a        *)
(* sequence of symbols denotes exactly one JavaScript string.              *)
(***************************************************************************)
EXTENDS Integers, Sequences, FiniteSets, TLC

VARIABLES
    file,           \* useState file: Null or [name, text, readable]
    converting,     \* useState converting
    result,         \* useState result: Null or [url, filename, content]
    error,          \* useState error: Null or [message |-> string]
    pointCount,     \* useState pointCount
    reading,        \* the convertToGPX call awaiting file.text(): Null or its file
    pc,             \* "start" before a function under study has run, then "done"
    csvText,        \* argument of parseCSV
    parsed,         \* outcome of parseCSV(csvText): Null until it has run
    points,         \* argument of createGPXXML
    gpxContent,     \* value returned by createGPXXML(points): empty until it has run
    fileName,       \* file.name handed to the filename derivation
    outputFilename  \* outputFilename derived from fileName

vars == <<file, converting, result, error, pointCount, reading,
          pc, csvText, parsed, points, gpxContent, fileName, outputFilename>>

uiVars == <<file, converting, result, error, pointCount, reading>>
parseVars == <<pc, csvText, parsed>>
gpxVars == <<points, gpxContent>>
nameVars == <<fileName, outputFilename>>

Null == [null |-> TRUE]

-----------------------------------------------------------------------------
(* Bounds of the model.                                                    *)
MaxRows == 2        \* data lines drawn for a CSV text
MaxPoints == 2      \* points drawn for createGPXXML
MaxNameLen == 5     \* symbols drawn for a filename

-----------------------------------------------------------------------------
(* String primitives.                                                      *)
COMMA == ","
NL == "\n"
CR == "\r"
SP == " "
QUOTE == "\""

\* String.prototype.trim strips white space and line terminators.
WhiteSpace == {SP, NL, CR, "\t"}

Range(s) == {s[i] : i \in 1..Len(s)}

RECURSIVE TrimStart(_)
TrimStart(s) ==
    IF s # <<>> /\ Head(s) \in WhiteSpace THEN TrimStart(Tail(s)) ELSE s

RECURSIVE TrimEnd(_)
TrimEnd(s) ==
    IF s # <<>> /\ s[Len(s)] \in WhiteSpace
    THEN TrimEnd(SubSeq(s, 1, Len(s) - 1))
    ELSE s

trim(s) == TrimEnd(TrimStart(s))

\* s.split(sep) for a one-character separator: "" gives [""].
RECURSIVE split(_, _)
split(s, sep) ==
    IF sep \notin Range(s)
    THEN <<s>>
    ELSE LET k == CHOOSE i \in 1..Len(s) :
                      s[i] = sep /\ \A j \in 1..(i - 1) : s[j] # sep
         IN <<SubSeq(s, 1, k - 1)>> \o split(SubSeq(s, k + 1, Len(s)), sep)

\* s.replace(/"/g, '')
IsNotQuote(c) == c # QUOTE
stripQuotes(s) == SelectSeq(s, IsNotQuote)

\* line.split(',').map(t => t.trim().replace(/"/g, ''))
cells(line) ==
    LET raw == split(line, COMMA)
    IN [i \in 1..Len(raw) |-> stripQuotes(trim(raw[i]))]

RECURSIVE join(_, _)
join(names, sep) ==
    IF names = <<>> THEN ""
    ELSE IF Len(names) = 1 THEN names[1]
    ELSE names[1] \o sep \o join(Tail(names), sep)

-----------------------------------------------------------------------------
(* Numbers.  A finite number is held in tenths; NaN and the infinities are *)
(* values of their own.                                                    *)
NaN == [k |-> "NaN"]
PosInf == [k |-> "Infinity"]
NegInf == [k |-> "-Infinity"]
Fin(t) == [k |-> "finite", t |-> t]

isNaN(x) == x = NaN

\* The longest prefix of a word that is a decimal literal, as parseFloat
\* reads it; a word with no such prefix gives NaN.
parseFloatWord(w) ==
    CASE w = "12.5" -> Fin(125)
      [] w = "12.50" -> Fin(125)
      [] w = "12.5x" -> Fin(125)
      [] w = "48.1" -> Fin(481)
      [] w = "-3" -> Fin(-30)
      [] w = "7" -> Fin(70)
      [] w = "1e1" -> Fin(100)
      [] w = "Infinity" -> PosInf
      [] w = "-Infinity" -> NegInf
      [] w = "2025-11-20T04:07:30.060Z" -> Fin(20250)
      [] w = "2025-11-20T08:07:30.060+04:00" -> Fin(20250)
      [] w = "2025-11-20T04:07:31Z" -> Fin(20250)
      [] w = "2025-13-45T00:00:00Z" -> Fin(20250)
      [] OTHER -> NaN

\* parseFloat(string): leading white space is skipped, then the longest
\* numeric prefix is read and whatever follows it is ignored.
parseFloat(s) ==
    LET t == TrimStart(s)
    IN IF t = <<>> \/ Head(t) \in {COMMA, QUOTE} THEN NaN
       ELSE parseFloatWord(Head(t))

\* String(number), as a template literal renders it.
numberToString(x) ==
    IF x.k # "finite" THEN x.k
    ELSE LET a == IF x.t < 0 THEN -x.t ELSE x.t
             sign == IF x.t < 0 THEN "-" ELSE ""
             int == ToString(a \div 10)
         IN IF a % 10 = 0 THEN sign \o int
            ELSE sign \o int \o "." \o ToString(a % 10)

-----------------------------------------------------------------------------
(* Dates.  A time value is seconds since the epoch plus milliseconds.      *)
InvalidDate == [valid |-> FALSE]
TimeValue(s, ms) == [valid |-> TRUE, s |-> s, ms |-> ms]

\* new Date(string) on the date-time string format of ECMAScript: a string
\* in the format with an illegal element value, and the empty string, give
\* an invalid date.
newDate(s) ==
    IF Len(s) # 1 THEN InvalidDate
    ELSE CASE s[1] = "2025-11-20T04:07:30.060Z" -> TimeValue(1763611650, 60)
           [] s[1] = "2025-11-20T08:07:30.060+04:00" -> TimeValue(1763611650, 60)
           [] s[1] = "2025-11-20T04:07:31Z" -> TimeValue(1763611651, 0)
           [] OTHER -> InvalidDate

\* Date.prototype.toISOString of a valid date: UTC, three fraction digits.
toISOString(dt) ==
    CASE dt = TimeValue(1763611650, 60) -> "2025-11-20T04:07:30.060Z"
      [] dt = TimeValue(1763611651, 0) -> "2025-11-20T04:07:31.000Z"

\* parseTimestamp: toISOString throws a RangeError on an invalid date, which
\* is rethrown as "Invalid timestamp format"; the replace of the fraction
\* keeps the three digits toISOString already gives.
parseTimestamp(timestampStr) ==
    LET dt == newDate(timestampStr)
    IN IF dt.valid
       THEN [threw |-> FALSE, value |-> toISOString(dt)]
       ELSE [threw |-> TRUE, message |-> "Invalid timestamp format"]

-----------------------------------------------------------------------------
(* parseCSV.                                                               *)
expectedColumns ==
    <<"timestamp", "latitude", "longitude", "sog_kts", "cog", "hdg_true",
      "heel", "trim">>

\* The JavaScript string made of one word.
Str(w) == <<w>>

\* A parser that splits the text without trimming it first.
lines_untrimmed(text) == split(text, NL)

\* csvText.trim().split('\n')
lines(text) == split(trim(text), NL)

headersOf(lns) == cells(lns[1])

\* A check that reports the first missing column only.
missingColumns_firstOnly(headers) ==
    LET Absent(col) == Str(col) \notin Range(headers)
        all == SelectSeq(expectedColumns, Absent)
    IN IF all = <<>> THEN <<>> ELSE <<all[1]>>

\* expectedColumns.filter(col => !headers.includes(col))
missingColumns(headers) ==
    LET Absent(col) == Str(col) \notin Range(headers)
    IN SelectSeq(expectedColumns, Absent)

\* headers.forEach((header, index) => row[header] = values[index]): a
\* header that occurs twice keeps the value of its last column.
rowObject(headers, values) ==
    [h \in Range(headers) |->
        values[CHOOSE i \in 1..Len(headers) :
                  headers[i] = h /\ \A j \in (i + 1)..Len(headers) : headers[j] # h]]

\* A validation that looks at the latitude only.
invalidCoordinates_latitudeOnly(point) == isNaN(point.latitude)

\* A validation that also rejects a course that is not a number.
invalidCoordinates_strict(point) ==
    isNaN(point.latitude) \/ isNaN(point.longitude) \/ isNaN(point.cog)

\* isNaN(point.latitude) || isNaN(point.longitude)
invalidCoordinates(point) == isNaN(point.latitude) \/ isNaN(point.longitude)

\* One iteration of the loop over the data lines; n is the 1-based line
\* number the warnings print (i + 1 in the code).
parseLine(headers, line, n) ==
    LET values == cells(line)
    IN IF Len(values) # Len(headers)
       THEN [push |-> FALSE, warn |-> <<>>]
       ELSE
         LET row == rowObject(headers, values)
             ts == parseTimestamp(row[Str("timestamp")])
         IN IF ts.threw
            THEN [push |-> FALSE, warn |-> <<[row |-> n, message |-> ts.message]>>]
            ELSE
              LET point == [timestamp |-> ts.value,
                            latitude |-> parseFloat(row[Str("latitude")]),
                            longitude |-> parseFloat(row[Str("longitude")]),
                            sog_kts |-> parseFloat(row[Str("sog_kts")]),
                            cog |-> parseFloat(row[Str("cog")]),
                            hdg_true |-> parseFloat(row[Str("hdg_true")]),
                            heel |-> parseFloat(row[Str("heel")]),
                            trim |-> parseFloat(row[Str("trim")])]
              IN IF invalidCoordinates(point)
                 THEN [push |-> FALSE,
                       warn |-> <<[row |-> n, message |-> "Invalid coordinates"]>>]
                 ELSE [push |-> TRUE, point |-> point, warn |-> <<>>]

\* for (let i = 1; i < lines.length; i++): lns[i] here is lines[i - 1] there.
RECURSIVE parseRows(_, _, _, _)
parseRows(headers, lns, i, acc) ==
    IF i > Len(lns) THEN acc
    ELSE LET r == parseLine(headers, lns[i], i)
         IN parseRows(headers, lns, i + 1,
                [points |-> IF r.push THEN Append(acc.points, r.point)
                            ELSE acc.points,
                 warnings |-> acc.warnings \o r.warn])

firstDataLine == 2

Threw(message, warnings) ==
    [threw |-> TRUE, message |-> message, warnings |-> warnings]

\* A parser that returns whatever the loop collected.
returnPoints_unchecked(done) ==
    [threw |-> FALSE, points |-> done.points, warnings |-> done.warnings]

\* if (points.length === 0) throw ...; return points
returnPoints(done) ==
    IF Len(done.points) = 0
    THEN Threw("No valid data points found in CSV file", done.warnings)
    ELSE [threw |-> FALSE, points |-> done.points, warnings |-> done.warnings]

parseCSV(text) ==
    LET lns == lines(text)
    IN IF Len(lns) < 2
       THEN Threw("CSV file must contain header and at least one data row", <<>>)
       ELSE
         LET headers == headersOf(lns)
             missing == missingColumns(headers)
         IN IF Len(missing) > 0
            THEN Threw("CSV missing required columns: " \o join(missing, ", "), <<>>)
            ELSE
              returnPoints(parseRows(headers, lns, firstDataLine,
                                     [points |-> <<>>, warnings |-> <<>>]))

-----------------------------------------------------------------------------
(* createGPXXML.  The document is the sequence of its lines, a line the    *)
(* sequence of the pieces the template literal joins: its literal text and *)
(* the interpolated values.                                                *)
gpxOpen ==
    << <<"<?xml version=\"1.0\" encoding=\"UTF-8\"?>">>,
       <<"<gpx version=\"1.1\" creator=\"csv_to_gpx_converter_web\" xmlns=\"http://www.topografix.com/GPX/1/1\">">>,
       <<"<trk>">>,
       <<"<trkseg>">> >>

gpxClose ==
    << <<"</trkseg>">>, <<"</trk>">>, <<"</gpx>">> >>

\* A serializer that leaves the elevation to the trim angle.
trkpt_eleFromTrim(point) ==
    << <<"<trkpt lat=\"", numberToString(point.latitude),
         "\" lon=\"", numberToString(point.longitude), "\">">>,
       <<"<ele>", numberToString(point.trim), "</ele>">>,
       <<"<time>", point.timestamp, "</time>">>,
       <<"<cog>", numberToString(point.cog), "</cog>">>,
       <<"<hdg_true>", numberToString(point.hdg_true), "</hdg_true>">>,
       <<"<heel>", numberToString(point.heel), "</heel>">>,
       <<"<trim>", numberToString(point.trim), "</trim>">>,
       <<"</trkpt>">> >>

trkpt(point) ==
    << <<"<trkpt lat=\"", numberToString(point.latitude),
         "\" lon=\"", numberToString(point.longitude), "\">">>,
       <<"<ele>", numberToString(point.hdg_true), "</ele>">>,
       <<"<time>", point.timestamp, "</time>">>,
       <<"<cog>", numberToString(point.cog), "</cog>">>,
       <<"<hdg_true>", numberToString(point.hdg_true), "</hdg_true>">>,
       <<"<heel>", numberToString(point.heel), "</heel>">>,
       <<"<trim>", numberToString(point.trim), "</trim>">>,
       <<"</trkpt>">> >>

\* points.forEach(point => gpxContent += ...)
RECURSIVE forEachPoint(_, _)
forEachPoint(pts, gpx) ==
    IF pts = <<>> THEN gpx
    ELSE forEachPoint(Tail(pts), gpx \o trkpt(Head(pts)))

createGPXXML(pts) == forEachPoint(pts, gpxOpen) \o gpxClose

-----------------------------------------------------------------------------
(* file.name.replace(/\.csv$/i, '_converted.gpx')                          *)
\* The pattern without its i flag.
matchesCsvSuffix_caseSensitive(name) ==
    /\ Len(name) >= 4
    /\ SubSeq(name, Len(name) - 3, Len(name)) = <<".", "c", "s", "v">>

\* /\.csv$/i
matchesCsvSuffix(name) ==
    /\ Len(name) >= 4
    /\ name[Len(name) - 3] = "."
    /\ name[Len(name) - 2] \in {"c", "C"}
    /\ name[Len(name) - 1] \in {"s", "S"}
    /\ name[Len(name)] \in {"v", "V"}

deriveFilename(name) ==
    IF matchesCsvSuffix(name)
    THEN SubSeq(name, 1, Len(name) - 4) \o <<"_converted.gpx">>
    ELSE name

-----------------------------------------------------------------------------
(* The synchronous part of convertToGPX that follows the await.            *)
\* URL.createObjectURL(new Blob([gpxXML], {type: 'application/gpx+xml'}))
createObjectURL(gpxXML) == [blob |-> gpxXML, type |-> "application/gpx+xml"]

convertText(f, text) ==
    LET p == parseCSV(text)
    IN IF p.threw
       THEN [threw |-> TRUE, message |-> p.message]
       ELSE LET gpxXML == createGPXXML(p.points)
            IN [threw |-> FALSE,
                result |-> [url |-> createObjectURL(gpxXML),
                            filename |-> deriveFilename(f.name),
                            content |-> gpxXML],
                pointCount |-> Len(p.points)]

-----------------------------------------------------------------------------
(* The inputs the specifications draw.                                     *)
SeqsUpTo(S, n) == UNION {[1..k -> S] : k \in 0..n}

\* A cell as it stands in the file; the word "" is the empty cell.
Decorate(style, w) ==
    LET body == IF w = "" THEN <<>> ELSE <<w>>
    IN CASE style = "plain" -> body
         [] style = "quoted" -> <<QUOTE>> \o body \o <<QUOTE>>
         [] style = "spaced" -> <<SP>> \o body \o <<SP>>
         [] style = "inner" -> <<QUOTE, SP>> \o body \o <<QUOTE>>

RECURSIVE Line(_, _)
Line(style, words) ==
    IF words = <<>> THEN <<>>
    ELSE IF Len(words) = 1 THEN Decorate(style, words[1])
    ELSE Decorate(style, words[1]) \o <<COMMA>> \o Line(style, Tail(words))

Shuffled ==
    <<"trim", "extra", "heel", "hdg_true", "cog", "sog_kts", "longitude",
      "latitude", "timestamp">>
NoCog ==
    <<"timestamp", "latitude", "longitude", "sog_kts", "hdg_true", "heel", "trim">>
NoCogTrim ==
    <<"heel", "timestamp", "latitude", "longitude", "sog_kts", "hdg_true">>

HeaderKinds ==
    {[cols |-> expectedColumns, style |-> "plain"],
     [cols |-> expectedColumns, style |-> "quoted"],
     [cols |-> expectedColumns, style |-> "spaced"],
     [cols |-> expectedColumns, style |-> "inner"],
     [cols |-> Shuffled, style |-> "plain"],
     [cols |-> NoCog, style |-> "plain"],
     [cols |-> NoCogTrim, style |-> "quoted"],
     [cols |-> <<>>, style |-> "plain"]}

Good1 ==
    [timestamp |-> "2025-11-20T04:07:30.060Z", latitude |-> "12.5",
     longitude |-> "-3", sog_kts |-> "7", cog |-> "1e1", hdg_true |-> "48.1",
     heel |-> "7", trim |-> "-3"]
Good2 ==
    [timestamp |-> "2025-11-20T04:07:31Z", latitude |-> "48.1",
     longitude |-> "12.5x", sog_kts |-> "12.50", cog |-> "7", hdg_true |-> "-3",
     heel |-> "1e1", trim |-> "12.5"]

RowKinds ==
    {[f |-> Good1, style |-> "plain", shape |-> "full"],
     [f |-> Good2, style |-> "quoted", shape |-> "full"],
     [f |-> [Good1 EXCEPT !.timestamp = "2025-13-45T00:00:00Z"],
      style |-> "plain", shape |-> "full"],
     [f |-> [Good2 EXCEPT !.timestamp = ""], style |-> "spaced", shape |-> "full"],
     [f |-> [Good1 EXCEPT !.latitude = "abc"], style |-> "plain", shape |-> "full"],
     [f |-> [Good2 EXCEPT !.longitude = ""], style |-> "plain", shape |-> "full"],
     [f |-> [Good1 EXCEPT !.latitude = "Infinity",
                          !.timestamp = "2025-11-20T08:07:30.060+04:00"],
      style |-> "plain", shape |-> "full"],
     [f |-> [Good2 EXCEPT !.sog_kts = "abc", !.cog = "abc", !.hdg_true = "",
                          !.heel = "NaN", !.trim = "abc"],
      style |-> "spaced", shape |-> "full"],
     [f |-> Good1, style |-> "plain", shape |-> "short"],
     [f |-> Good2, style |-> "plain", shape |-> "long"]}

\* The line of a row under a header: each column holds the row's value of
\* that name, a column the row has no value for holds "x".
RowLine(cols, row) ==
    LET full == [j \in 1..Len(cols) |->
                    IF cols[j] \in DOMAIN row.f THEN row.f[cols[j]] ELSE "x"]
        words == CASE row.shape = "full" -> full
                   [] row.shape = "short" -> SubSeq(full, 1, Len(full) - 1)
                   [] row.shape = "long" -> Append(full, "x")
    IN Line(row.style, words)

Pads ==
    {[lead |-> <<>>, eol |-> <<NL>>, trail |-> <<>>],
     [lead |-> <<SP, NL>>, eol |-> <<NL>>, trail |-> <<NL>>],
     [lead |-> <<>>, eol |-> <<CR, NL>>, trail |-> <<CR, NL>>],
     [lead |-> <<>>, eol |-> <<NL, NL>>, trail |-> <<NL, SP, NL>>]}

RECURSIVE RowLines(_, _, _)
RowLines(cols, rows, eol) ==
    IF rows = <<>> THEN <<>>
    ELSE eol \o RowLine(cols, Head(rows)) \o RowLines(cols, Tail(rows), eol)

MakeText(h, rows, pad) ==
    pad.lead \o Line(h.style, h.cols) \o RowLines(h.cols, rows, pad.eol) \o pad.trail

Texts ==
    {MakeText(h, rows, pad) :
        h \in HeaderKinds, rows \in SeqsUpTo(RowKinds, MaxRows), pad \in Pads}

\* The points createGPXXML is handed.
PointValues ==
    {[timestamp |-> ts, latitude |-> lat, longitude |-> Fin(-30),
      sog_kts |-> Fin(70), cog |-> hdg, hdg_true |-> hdg, heel |-> NaN,
      trim |-> lat] :
        ts \in {"2025-11-20T04:07:30.060Z", "2025-11-20T04:07:31.000Z"},
        lat \in {Fin(125), Fin(481)},
        hdg \in {Fin(-30), NaN}}

\* The characters of a filename.
NameChars == {".", "c", "s", "v", "C", "S", "V", "k"}

\* The files the user can pick.
Files ==
    {[name |-> <<"k", ".", "c", "s", "v">>,
      text |-> MakeText([cols |-> expectedColumns, style |-> "plain"],
                        <<[f |-> Good1, style |-> "plain", shape |-> "full"],
                          [f |-> Good2, style |-> "quoted", shape |-> "full"]>>,
                        [lead |-> <<>>, eol |-> <<NL>>, trail |-> <<NL>>])],
     [name |-> <<"v", ".", "C", "S", "V">>,
      text |-> MakeText([cols |-> Shuffled, style |-> "plain"],
                        <<[f |-> Good2, style |-> "plain", shape |-> "full"]>>,
                        [lead |-> <<>>, eol |-> <<CR, NL>>, trail |-> <<>>])],
     [name |-> <<"s", ".", "c", "s", "v", ".", "k">>,
      text |-> MakeText([cols |-> NoCog, style |-> "plain"],
                        <<[f |-> Good1, style |-> "plain", shape |-> "full"]>>,
                        [lead |-> <<>>, eol |-> <<NL>>, trail |-> <<>>])],
     [name |-> <<"c">>,
      text |-> MakeText([cols |-> expectedColumns, style |-> "plain"],
                        <<[f |-> [Good1 EXCEPT !.latitude = "abc"],
                           style |-> "plain", shape |-> "full"]>>,
                        [lead |-> <<>>, eol |-> <<NL>>, trail |-> <<>>])],
     [name |-> <<"S", ".", "c", "S", "v">>,
      text |-> MakeText([cols |-> expectedColumns, style |-> "quoted"],
                        <<>>,
                        [lead |-> <<>>, eol |-> <<NL>>, trail |-> <<NL>>])],
     [name |-> <<"k", ".", "c", "s", "v">>,
      text |-> MakeText([cols |-> expectedColumns, style |-> "spaced"],
                        <<[f |-> Good2, style |-> "plain", shape |-> "short"],
                          [f |-> Good1, style |-> "plain", shape |-> "full"]>>,
                        [lead |-> <<>>, eol |-> <<NL>>, trail |-> <<>>])]}

-----------------------------------------------------------------------------
(* The component: state after construction and its handlers.               *)
InitComponent ==
    /\ file = Null
    /\ converting = FALSE
    /\ result = Null
    /\ error = Null
    /\ pointCount = 0
    /\ reading = Null

InitPure ==
    /\ pc = "start"
    /\ csvText = <<>>
    /\ parsed = Null
    /\ points = <<>>
    /\ gpxContent = <<>>
    /\ fileName = <<>>
    /\ outputFilename = <<>>

Init == InitComponent /\ InitPure

\* onChange of the file input; event.target.files[0] is undefined when the
\* picker is dismissed.
handleFileUpload ==
    \E uploadedFile \in Files \cup {Null} :
        /\ IF uploadedFile # Null
           THEN /\ file' = uploadedFile
                /\ result' = Null
                /\ error' = Null
                /\ pointCount' = 0
           ELSE UNCHANGED <<file, result, error, pointCount>>
        /\ UNCHANGED <<converting, reading>>
        /\ UNCHANGED <<parseVars, gpxVars, nameVars>>

\* A click handler that forgets setError(null).
convertToGPX_keepsError ==
    /\ file # Null
    /\ ~converting
    /\ converting' = TRUE
    /\ result' = Null
    /\ reading' = file
    /\ UNCHANGED <<file, pointCount, error>>
    /\ UNCHANGED <<parseVars, gpxVars, nameVars>>

\* onClick of the convert button (disabled={!file || converting}), up to
\* the await of file.text().
convertToGPX ==
    /\ file # Null
    /\ ~converting
    /\ converting' = TRUE
    /\ error' = Null
    /\ result' = Null
    /\ reading' = file
    /\ UNCHANGED <<file, pointCount>>
    /\ UNCHANGED <<parseVars, gpxVars, nameVars>>

\* file.text() resolves: the rest of the try block, then finally.
fileTextResolved ==
    /\ reading # Null
    /\ \E c \in {convertText(reading, reading.text)} :
          IF c.threw
          THEN /\ error' = [message |-> c.message]
               /\ UNCHANGED <<result, pointCount>>
          ELSE /\ result' = c.result
               /\ pointCount' = c.pointCount
               /\ UNCHANGED error
    /\ converting' = FALSE
    /\ reading' = Null
    /\ UNCHANGED file
    /\ UNCHANGED <<parseVars, gpxVars, nameVars>>

\* file.text() rejects: catch, then finally.
fileTextRejected ==
    /\ reading # Null
    /\ error' = [message |-> "NotReadableError"]
    /\ converting' = FALSE
    /\ reading' = Null
    /\ UNCHANGED <<file, result, pointCount>>
    /\ UNCHANGED <<parseVars, gpxVars, nameVars>>

Next ==
    \/ handleFileUpload
    \/ convertToGPX
    \/ fileTextResolved
    \/ fileTextRejected

Spec == Init /\ [][Next]_vars

-----------------------------------------------------------------------------
(* parseCSV followed by createGPXXML, as convertToGPX runs them, on the    *)
(* texts of Texts.                                                         *)
InitParse ==
    /\ InitComponent
    /\ pc = "start"
    /\ csvText \in Texts
    /\ parsed = Null
    /\ points = <<>>
    /\ gpxContent = <<>>
    /\ fileName = <<>>
    /\ outputFilename = <<>>

parseAndSerialize ==
    /\ pc = "start"
    /\ pc' = "done"
    /\ parsed' = parseCSV(csvText)
    /\ IF parsed'.threw
       THEN UNCHANGED gpxVars
       ELSE /\ points' = parsed'.points
            /\ gpxContent' = createGPXXML(parsed'.points)
    /\ UNCHANGED <<csvText, uiVars, nameVars>>

NextParse == parseAndSerialize

SpecParse == InitParse /\ [][NextParse]_vars

-----------------------------------------------------------------------------
(* createGPXXML on any sequence of points.                                 *)
InitGPX ==
    /\ InitComponent
    /\ pc = "start"
    /\ csvText = <<>>
    /\ parsed = Null
    /\ points \in SeqsUpTo(PointValues, MaxPoints)
    /\ gpxContent = <<>>
    /\ fileName = <<>>
    /\ outputFilename = <<>>

serialize ==
    /\ pc = "start"
    /\ pc' = "done"
    /\ gpxContent' = createGPXXML(points)
    /\ UNCHANGED <<points, uiVars, csvText, parsed, nameVars>>

NextGPX == serialize

SpecGPX == InitGPX /\ [][NextGPX]_vars

-----------------------------------------------------------------------------
(* The filename derivation on any filename.                                *)
InitName ==
    /\ InitComponent
    /\ pc = "start"
    /\ csvText = <<>>
    /\ parsed = Null
    /\ points = <<>>
    /\ gpxContent = <<>>
    /\ fileName \in SeqsUpTo(NameChars, MaxNameLen)
    /\ outputFilename = <<>>

deriveName ==
    /\ pc = "start"
    /\ pc' = "done"
    /\ outputFilename' = deriveFilename(fileName)
    /\ UNCHANGED <<fileName, uiVars, csvText, parsed, gpxVars>>

NextName == deriveName

SpecName == InitName /\ [][NextName]_vars

-----------------------------------------------------------------------------
(* Properties of parseCSV, stated on the text it was given.                *)
TooFewLinesMessage == "CSV file must contain header and at least one data row"
NoValidPointsMessage == "No valid data points found in CSV file"

Done == pc = "done"

CountOf(s, c) == Cardinality({i \in 1..Len(s) : s[i] = c})

\* The text has a newline left once its ends are trimmed.
HasTwoLines == CountOf(trim(csvText), NL) >= 1

TheLines == split(trim(csvText), NL)
HeaderLine == TheLines[1]
DataLines == Tail(TheLines)
HeaderTokens == cells(HeaderLine)

RequiredColumns == Range(expectedColumns)
MissingIn(hdr) == {c \in RequiredColumns : Str(c) \notin Range(hdr)}
RequiredMissing == MissingIn(HeaderTokens)

MissingMessage(M) ==
    LET InM(c) == c \in M
    IN "CSV missing required columns: " \o join(SelectSeq(expectedColumns, InM), ", ")

MissingMessages == {MissingMessage(M) : M \in (SUBSET RequiredColumns) \ {{}}}

PassesHeader == HasTwoLines /\ RequiredMissing = {}

\* The value a data line of values vals holds in the column of the given
\* name, under the header tokens hdr.
FieldOf(hdr, vals, col) ==
    vals[CHOOSE i \in 1..Len(hdr) : hdr[i] = Str(col)]

\* (a) as many values as the header, (b) a timestamp that is a valid
\* instant, (c) a latitude and a longitude that are numbers.
PassesUnder(hdr, commas, line) ==
    /\ CountOf(line, COMMA) = commas
    /\ LET vals == cells(line)
       IN /\ newDate(FieldOf(hdr, vals, "timestamp")).valid
          /\ parseFloat(FieldOf(hdr, vals, "latitude")) # NaN
          /\ parseFloat(FieldOf(hdr, vals, "longitude")) # NaN

PointUnder(hdr, line) ==
    LET vals == cells(line)
    IN [timestamp |-> toISOString(newDate(FieldOf(hdr, vals, "timestamp"))),
        latitude |-> parseFloat(FieldOf(hdr, vals, "latitude")),
        longitude |-> parseFloat(FieldOf(hdr, vals, "longitude")),
        sog_kts |-> parseFloat(FieldOf(hdr, vals, "sog_kts")),
        cog |-> parseFloat(FieldOf(hdr, vals, "cog")),
        hdg_true |-> parseFloat(FieldOf(hdr, vals, "hdg_true")),
        heel |-> parseFloat(FieldOf(hdr, vals, "heel")),
        trim |-> parseFloat(FieldOf(hdr, vals, "trim"))]

\* Which data lines pass (a), (b) and (c), by position.
PassFlags ==
    LET all == TheLines
        hdr == cells(all[1])
        commas == CountOf(all[1], COMMA)
    IN [k \in 1..(Len(all) - 1) |-> PassesUnder(hdr, commas, all[k + 1])]

Passes(k) == PassFlags[k]

ExpectedPoints ==
    LET all == TheLines
        hdr == cells(all[1])
        commas == CountOf(all[1], COMMA)
        Ok(line) == PassesUnder(hdr, commas, line)
        kept == SelectSeq(Tail(all), Ok)
    IN [i \in 1..Len(kept) |-> PointUnder(hdr, kept[i])]

\* C1: on a text that passes the line-count and header checks parseCSV
\* returns, in row order, exactly the points of the data rows that have as
\* many values as the header, a valid timestamp and a numeric latitude and
\* longitude; the other rows are dropped without a fatal error and without
\* effect on the rest (the fatal error is left to the case where no row is
\* kept).
C1_ExactlyThePassingRows ==
    (Done /\ PassesHeader) =>
        LET expected == ExpectedPoints
        IN IF Len(expected) = 0
           THEN parsed.threw /\ parsed.message = NoValidPointsMessage
           ELSE ~parsed.threw /\ parsed.points = expected

\* A row was dropped for its timestamp or coordinates and the row after it
\* was kept.
C1_Witness ==
    /\ Done
    /\ PassesHeader
    /\ Len(DataLines) = 2
    /\ CountOf(DataLines[1], COMMA) = CountOf(HeaderLine, COMMA)
    /\ ~Passes(1)
    /\ Passes(2)
    /\ ~parsed.threw
    /\ Len(parsed.points) = 1

\* C2: every point parseCSV returns has a finite latitude and a finite
\* longitude.
C2_CoordinatesFinite ==
    (Done /\ ~parsed.threw) =>
        \A i \in 1..Len(parsed.points) :
            /\ parsed.points[i].latitude.k = "finite"
            /\ parsed.points[i].longitude.k = "finite"

AuxiliaryFields == {"sog_kts", "cog", "hdg_true", "heel", "trim"}

\* The value holds no number: it is empty or starts with no digit.
HoldsNoNumber(value) == value = <<>> \/ value[1] \in {"abc", "NaN"}

PassingUpTo(flags, k) == Cardinality({j \in 1..k : flags[j]})

\* C3: a data row with as many values as the header, a valid timestamp and
\* a numeric latitude and longitude is in the output whatever its sog_kts,
\* cog, hdg_true, heel and trim are, and each of these that holds no number
\* is NaN in the point.
C3_AuxiliaryFieldsNotValidated ==
    (Done /\ PassesHeader) =>
        LET flags == PassFlags
            hdr == HeaderTokens
            rows == DataLines
        IN \A k \in 1..Len(rows) :
               flags[k] =>
                   LET n == PassingUpTo(flags, k)
                       vals == cells(rows[k])
                   IN /\ ~parsed.threw
                      /\ n <= Len(parsed.points)
                      /\ parsed.points[n].latitude
                             = parseFloat(FieldOf(hdr, vals, "latitude"))
                      /\ \A a \in AuxiliaryFields :
                             HoldsNoNumber(FieldOf(hdr, vals, a)) =>
                                 parsed.points[n][a] = NaN

\* A returned point holds NaN in all five auxiliary fields.
C3_Witness ==
    /\ Done
    /\ ~parsed.threw
    /\ \E i \in 1..Len(parsed.points) :
           \A a \in AuxiliaryFields : parsed.points[i][a] = NaN

\* C4: on a text of at least two lines parseCSV fails with the
\* missing-columns error exactly when a required column is absent from the
\* trimmed, de-quoted header tokens; the message names the absent columns
\* and no other, whatever the order of the header and its extra columns,
\* and no data row has been looked at (no warning was logged).
C4_MissingColumns ==
    (Done /\ HasTwoLines) =>
        LET missing == RequiredMissing
        IN /\ (parsed.threw /\ parsed.message \in MissingMessages) <=> missing # {}
           /\ missing # {} =>
                  /\ parsed.message = MissingMessage(missing)
                  /\ parsed.warnings = <<>>

\* Two columns are missing and a data row that follows holds a latitude
\* that is no number.
C4_Witness ==
    /\ Done
    /\ HasTwoLines
    /\ RequiredMissing = {"cog", "trim"}
    /\ parsed.threw
    /\ parsed.message = "CSV missing required columns: cog, trim"
    /\ \E k \in 1..Len(DataLines) : "abc" \in Range(DataLines[k])

\* C5: parseCSV never returns an empty sequence: past the header checks it
\* fails with the no-valid-points error exactly when no data row survives,
\* and createGPXXML is never handed an empty sequence by convertToGPX.
C5_NeverEmpty ==
    Done =>
        /\ ~parsed.threw => Len(parsed.points) >= 1
        /\ (parsed.threw /\ parsed.message = NoValidPointsMessage)
               <=> (PassesHeader /\ \A k \in 1..Len(DataLines) : ~Passes(k))
        /\ gpxContent # <<>> => Len(points) >= 1

\* Two data rows were read and none survived.
C5_Witness ==
    /\ Done
    /\ PassesHeader
    /\ Len(DataLines) = 2
    /\ \A k \in 1..2 : CountOf(DataLines[k], COMMA) = CountOf(HeaderLine, COMMA)
    /\ parsed.threw
    /\ parsed.message = NoValidPointsMessage
    /\ gpxContent = <<>>

\* C6: parseCSV fails with the too-few-lines error exactly when the text,
\* trimmed at both ends, holds no newline; the check comes first, so a
\* header alone is reported as too few lines even when it lacks columns.
C6_TooFewLines ==
    Done => ((parsed.threw /\ parsed.message = TooFewLinesMessage) <=> ~HasTwoLines)

\* A header that lacks a required column, followed by blank space only.
C6_Witness ==
    /\ Done
    /\ trim(csvText) # <<>>
    /\ trim(csvText) # csvText
    /\ RequiredMissing # {}
    /\ parsed.threw
    /\ parsed.message = TooFewLinesMessage

-----------------------------------------------------------------------------
(* Properties of createGPXXML.                                             *)
TrkptOpen == "<trkpt lat=\""

LinesWith(doc, t) == {i \in 1..Len(doc) : doc[i][1] = t}

\* The i-th smallest of a set of line numbers.
Nth(starts, i) ==
    CHOOSE k \in starts : Cardinality({j \in starts : j <= k}) = i

\* C7: createGPXXML of N points is a document with one <trk> holding one
\* <trkseg> holding N <trkpt> elements; the i-th carries the lat, lon,
\* timestamp, cog, hdg_true, heel and trim of the i-th point, and its <ele>
\* is the point's hdg_true.
C7_OneTrkptPerPoint ==
    Done =>
        LET doc == gpxContent
            N == Len(points)
            starts == LinesWith(doc, TrkptOpen)
            trk == LinesWith(doc, "<trk>")
            seg == LinesWith(doc, "<trkseg>")
            segEnd == LinesWith(doc, "</trkseg>")
            trkEnd == LinesWith(doc, "</trk>")
        IN /\ Cardinality(starts) = N
           /\ Cardinality(trk) = 1 /\ Cardinality(trkEnd) = 1
           /\ Cardinality(seg) = 1 /\ Cardinality(segEnd) = 1
           /\ \A t \in trk, s \in seg, e \in segEnd, f \in trkEnd :
                  /\ t < s /\ s < e /\ e < f
                  /\ \A k \in starts : s < k /\ k + 7 < e
           /\ \A i \in 1..N :
                  LET k == Nth(starts, i)
                      p == points[i]
                  IN /\ doc[k] = <<TrkptOpen, numberToString(p.latitude),
                                   "\" lon=\"", numberToString(p.longitude), "\">">>
                     /\ doc[k + 1] = <<"<ele>", numberToString(p.hdg_true), "</ele>">>
                     /\ doc[k + 2] = <<"<time>", p.timestamp, "</time>">>
                     /\ doc[k + 3] = <<"<cog>", numberToString(p.cog), "</cog>">>
                     /\ doc[k + 4] = <<"<hdg_true>", numberToString(p.hdg_true),
                                       "</hdg_true>">>
                     /\ doc[k + 5] = <<"<heel>", numberToString(p.heel), "</heel>">>
                     /\ doc[k + 6] = <<"<trim>", numberToString(p.trim), "</trim>">>
                     /\ doc[k + 7] = <<"</trkpt>">>

\* Two points that differ were serialized, one with a heading that is NaN.
C7_Witness ==
    /\ Done
    /\ Len(points) = 2
    /\ points[1].hdg_true = NaN
    /\ points[2].hdg_true # NaN
    /\ points[1].latitude # points[2].latitude
    /\ Cardinality(LinesWith(gpxContent, TrkptOpen)) = 2

-----------------------------------------------------------------------------
(* Properties of the filename derivation.                                  *)
Lower(c) ==
    CASE c = "C" -> "c"
      [] c = "S" -> "s"
      [] c = "V" -> "v"
      [] OTHER -> c

EndsInCsv(name) ==
    /\ Len(name) >= 4
    /\ [i \in 1..4 |-> Lower(name[Len(name) - 4 + i])] = <<".", "c", "s", "v">>

\* C8: the suggested filename is the filename with a ".csv" at its very end,
\* in any letter case, replaced by "_converted.gpx"; a filename that does
\* not end in ".csv" is kept as it is.
C8_SuggestedFilename ==
    Done =>
        IF EndsInCsv(fileName)
        THEN outputFilename
                 = SubSeq(fileName, 1, Len(fileName) - 4) \o <<"_converted.gpx">>
        ELSE outputFilename = fileName

\* A filename that ends in ".CSV" was converted.
C8_Witness ==
    /\ Done
    /\ fileName = <<"k", ".", "C", "S", "V">>
    /\ outputFilename = <<"k", "_converted.gpx">>

-----------------------------------------------------------------------------
(* Properties of the component.                                            *)
TrkptCount(doc) == Cardinality(LinesWith(doc, TrkptOpen))

\* The step in which the awaited file.text() settles.
Settles == reading # Null /\ reading' = Null

C9_SettleStep ==
    Settles =>
        \/ /\ error' # Null
           /\ result = Null /\ result' = Null
           /\ pointCount' = pointCount
        \/ /\ error = Null /\ error' = Null
           /\ result' # Null
           /\ pointCount' = TrkptCount(result'.content)
           /\ pointCount' >= 1

\* C9: result and error are never both set; a conversion that fails sets
\* the error and leaves result null and pointCount as it was, a conversion
\* that succeeds sets result and pointCount and leaves error null.
C9_NoResultWithError ==
    /\ [](result = Null \/ error = Null)
    /\ [][C9_SettleStep]_vars

\* A conversion failed after an earlier one had succeeded: the error is set,
\* result is null and pointCount still holds the earlier count.
C9_Witness ==
    /\ error # Null
    /\ result = Null
    /\ reading = Null
    /\ pointCount >= 1

\* C10: whenever result is set it was produced from the file that is
\* selected: its filename derives from file.name, its content and
\* pointCount come from that file's text.
C10_ResultOfSelectedFile ==
    result # Null =>
        /\ file # Null
        /\ result.filename = deriveFilename(file.name)
        /\ ~parseCSV(file.text).threw
        /\ result.content = createGPXXML(parseCSV(file.text).points)
        /\ pointCount = Len(parseCSV(file.text).points)

====
